---- MODULE Spec2Model ----
(***************************************************************************)
(* A model of pruner (src/main.c): argument parsing, the closure of the    *)
(* keep-set over the call graph (merge_callees), the selection of the      *)
(* top-level declarations (visitor) and the token-range corrections (emit).*)
(* set.h and cfg.h are collaborators whose sources are not part of         *)
(* src/main.c; their behaviour is taken from spec.md sections 4.1 and 4.2. *)
(***************************************************************************)
EXTENDS Integers, Sequences, FiniteSets, TLC

(* ------------------------------ bounds --------------------------------- *)
\* options scanned by getopt_long in one run
MaxOpts == 2
\* call edges in the translation unit's call graph
MaxCalls == 2
\* top-level declarations visited in one run
MaxDecls == 2
\* frames of cfg_visit_callees the process stack can hold
MaxDepth == 3
\* tokens in a declaration's extent (emit checked on its own)
MaxTokens == 3

(* ------------------------------ universe ------------------------------- *)
\* functions defined in the translation unit
Funcs == {"f", "g", "h"}
\* symbol names a declaration or an option can spell
Names == Funcs \cup {"T"}
\* the callee handed to the visitor for a call with no definition
NULL == "NULL"
Paths == {"/dev/stdout", "out.c"}

SeqsUpTo(S, n) == UNION {[1..k -> S] : k \in 0..n}

(* ------------------------------ state ---------------------------------- *)
VARIABLES
    pc,         \* position of the process in main
    remaining,  \* options of argv that getopt_long has not scanned yet
    arg,        \* the argv element getopt_long scanned last
    optarg,     \* getopt's optarg
    opts,       \* options_t: input, output, keep, blacklist
    graph,      \* cfg_t: caller -> callees, NULL among them for an undefined one
    keeps0,     \* the keep-set merge_callees was entered with
    iter,       \* set_iter_t i of merge_callees: callers not yet returned
    callees,    \* the accumulator set of merge_callees
    stack,      \* active calls of cfg_visit_callees, innermost last
    warnings,   \* "Warning: no definition ..." lines written to stderr
    err,        \* the fatal message written to stderr, "" when none
    out,        \* what has been written to the output stream
    opened,     \* whether fopen(opts->output, "w") has been done
    cursor,     \* the cursor handed to the AST visitor last
    verdict,    \* what the AST visitor did with it
    ndecls,     \* top-level declarations visited
    held,       \* resources acquired and not released
    exit        \* exit status of the process, "none" while it runs

vars == <<pc, remaining, arg, optarg, opts, graph, keeps0, iter, callees, stack,
          warnings, err, out, opened, cursor, verdict, ndecls, held, exit>>

NoGraph == [n \in {} |-> {}]
NoCursor == [kind |-> "none", spelling |-> "", isDefinition |-> FALSE, tokens |-> <<>>]

(* ------------------------------ set.h ---------------------------------- *)
set_insert(s, name) == s \cup {name}
set_contains(s, name) == name \in s
set_union(a, b) == a \cup b

(* ------------------------------ parse_args ----------------------------- *)
\* struct option opts[]: long option name -> value returned
LongOpts == [blacklist |-> "b", help |-> "?", keep |-> "k", output |-> "o"]
\* the short option letters of the optstring "k:o:?"
OptString == {"k", "o", "?"}

\* argv elements: [dashes, name], "--name" or "-name"
Args == [dashes : {1, 2}, name : {"blacklist", "help", "keep", "output", "b", "k", "o", "?", "z"}]

\* getopt_long accepts an unambiguous prefix of a long option name
Abbrev == [b |-> "blacklist", k |-> "keep", o |-> "output"]

\* getopt_long on one option element: the value main's switch sees
\* ("?" for an option it does not know)
getopt_long(a) ==
    IF a.dashes = 2
    THEN IF a.name \in DOMAIN LongOpts THEN LongOpts[a.name]
         ELSE IF a.name \in DOMAIN Abbrev THEN LongOpts[Abbrev[a.name]]
         ELSE "?"
    ELSE IF a.name \in OptString THEN a.name ELSE "?"

NoArg == [dashes |-> 0, name |-> ""]

DefaultOpts == [input |-> NULL, output |-> "/dev/stdout", keep |-> {}, blacklist |-> {}]

\* what the labels fail4 .. fail1 release before exit(EXIT_FAILURE)
FailRelease(label) ==
    CASE label = 4 -> {"blacklist", "keep", "opts"}
      [] label = 3 -> {"keep", "opts"}
      [] label = 2 -> {"opts"}
      [] OTHER -> {}

\* exit(EXIT_FAILURE) / return EXIT_FAILURE with message m
Die(m) ==
    /\ pc' = "done"
    /\ exit' = "EXIT_FAILURE"
    /\ err' = m

\* calloc and the two set() calls; allocation number `failed` failing leaves
\* through the label of that number, with what FailRelease(failed) names acquired
ParseArgsAlloc ==
    /\ pc = "parse_args"
    /\ \E failed \in 0..3 :
         IF failed = 0
         THEN /\ opts' = DefaultOpts
              /\ held' = held \cup {"opts", "keep", "blacklist"}
              /\ pc' = "getopt"
              /\ UNCHANGED <<exit, err>>
         ELSE /\ held' = (held \cup FailRelease(failed)) \ FailRelease(failed)
              /\ Die("")
              /\ UNCHANGED opts
    /\ UNCHANGED <<remaining, arg, optarg, graph, keeps0, iter, callees, stack,
                   warnings, out, opened, cursor, verdict, ndecls>>

\* one turn of the getopt loop; the switch's case for c
Scan(a) ==
    /\ pc = "getopt"
    /\ remaining > 0
    /\ remaining' = remaining - 1
    /\ arg' = a
    /\ UNCHANGED <<graph, keeps0, iter, callees, stack, warnings, out, opened,
                   cursor, verdict, ndecls>>

\* case 'b'
OptBlacklist ==
    \E a \in Args, s \in Names :
        /\ getopt_long(a) = "b"
        /\ Scan(a)
        /\ optarg' = s
        /\ opts' = [opts EXCEPT !.blacklist = set_insert(@, s)]
        /\ UNCHANGED <<pc, held, exit, err>>

\* case 'k'
OptKeep ==
    \E a \in Args, s \in Names :
        /\ getopt_long(a) = "k"
        /\ Scan(a)
        /\ optarg' = s
        /\ opts' = [opts EXCEPT !.keep = set_insert(@, s)]
        /\ UNCHANGED <<pc, held, exit, err>>

\* case 'o'
OptOutput ==
    \E a \in Args, p \in Paths :
        /\ getopt_long(a) = "o"
        /\ Scan(a)
        /\ optarg' = p
        /\ opts' = [opts EXCEPT !.output = p]
        /\ UNCHANGED <<pc, held, exit, err>>

\* case '?': --help, -?, and every option getopt_long does not know
OptHelp ==
    \E a \in Args :
        /\ getopt_long(a) = "?"
        /\ Scan(a)
        /\ held' = held \ FailRelease(4)
        /\ Die("Usage")
        /\ UNCHANGED <<optarg, opts>>

\* getopt_long returned -1: the positional arguments
ParseArgsEnd ==
    /\ pc = "getopt"
    /\ remaining = 0
    /\ \E npos \in 0..2 :
         IF npos = 2
         THEN /\ held' = held \ FailRelease(4)
              /\ Die("multiple input files are not supported")
              /\ UNCHANGED opts
         ELSE /\ opts' = [opts EXCEPT !.input = IF npos = 1 THEN "in.c" ELSE NULL]
              /\ pc' = "main"
              /\ UNCHANGED <<held, exit, err>>
    \* getopt's state is not read after the loop
    /\ arg' = NoArg
    /\ optarg' = ""
    /\ UNCHANGED <<remaining, graph, keeps0, iter, callees, stack, warnings, out,
                   opened, cursor, verdict, ndecls>>

(* ------------------------------ emit ----------------------------------- *)
Kinds == {"CXCursor_FunctionDecl", "CXCursor_StructDecl", "CXCursor_UnionDecl",
          "CXCursor_EnumDecl", "CXCursor_TypedefDecl", "CXCursor_VarDecl"}

\* token spellings that the corrections tell apart, and one they do not
Spellings == {"}", ";", "__attribute__", "x"}

\* a cursor: its kind, its spelling, whether it is a definition, and the token
\* spellings clang_tokenize gives for its extent
AllCursors ==
    [kind : Kinds, spelling : {"T"}, isDefinition : BOOLEAN,
     tokens : SeqsUpTo(Spellings, MaxTokens)]

\* emit with the last token of a function definition dropped whatever it is
emit_always_drops(c) ==
    IF Len(c.tokens) = 0 THEN <<>>
    ELSE
    LET last == c.tokens[Len(c.tokens)]
        tokens_sz ==
            IF c.kind = "CXCursor_FunctionDecl" /\ c.isDefinition
            THEN Len(c.tokens) - 1
            ELSE Len(c.tokens)
    IN IF /\ c.kind \in {"CXCursor_StructDecl", "CXCursor_UnionDecl", "CXCursor_EnumDecl"}
          /\ last # ";"
          /\ last # "}"
       THEN <<>>
       ELSE [i \in 1..tokens_sz |->
                IF /\ i = tokens_sz
                   /\ c.kind = "CXCursor_TypedefDecl"
                   /\ c.tokens[i] = "__attribute__"
                THEN "; "
                ELSE c.tokens[i] \o "\n"]

\* what emit writes to the stream for a cursor, one element per fprintf
emit(c) ==
    IF Len(c.tokens) = 0 THEN <<>>
    ELSE
    LET last == c.tokens[Len(c.tokens)]
        tokens_sz ==
            IF /\ c.kind = "CXCursor_FunctionDecl"
               /\ c.isDefinition
               /\ last # "}"
            THEN Len(c.tokens) - 1
            ELSE Len(c.tokens)
    IN IF /\ c.kind \in {"CXCursor_StructDecl", "CXCursor_UnionDecl", "CXCursor_EnumDecl"}
          /\ last # ";"
          /\ last # "}"
       THEN <<>>
       ELSE [i \in 1..tokens_sz |->
                IF /\ i = tokens_sz
                   /\ c.kind = "CXCursor_TypedefDecl"
                   /\ c.tokens[i] = "__attribute__"
                THEN "; "
                ELSE c.tokens[i] \o "\n"]

(* ------------------------------ visitor -------------------------------- *)
is_blacklisted(blacklist, c) == set_contains(blacklist, c.spelling)

\* the visitor with the keep-set consulted for cursors of every kind
visitor_keep_every_kind(c, keep, blacklist) ==
    IF ~set_contains(keep, c.spelling)
    THEN "skip"
    ELSE IF is_blacklisted(blacklist, c)
    THEN "skip"
    ELSE "emit"

\* the visitor with the blacklist consulted only for functions that are not kept
visitor_keep_beats_blacklist(c, keep, blacklist) ==
    IF c.kind = "CXCursor_FunctionDecl" /\ ~set_contains(keep, c.spelling)
    THEN "skip"
    ELSE IF c.kind # "CXCursor_FunctionDecl" /\ is_blacklisted(blacklist, c)
    THEN "skip"
    ELSE "emit"

\* the AST visitor's decision for a top-level cursor
visitor(c, keep, blacklist) ==
    IF c.kind = "CXCursor_FunctionDecl" /\ ~set_contains(keep, c.spelling)
    THEN "skip"
    ELSE IF is_blacklisted(blacklist, c)
    THEN "skip"
    ELSE "emit"

\* the top-level declarations a translation unit is made of here: the
\* definitions of the functions, each followed by another token, and a
\* struct, a typedef and a variable
TopLevel ==
    { [kind |-> "CXCursor_FunctionDecl", spelling |-> n, isDefinition |-> TRUE,
       tokens |-> <<n, "{", "}", "x">>] : n \in Funcs }
    \cup
    { [kind |-> k, spelling |-> "T", isDefinition |-> TRUE,
       tokens |-> <<"T", ";">>] :
        k \in {"CXCursor_StructDecl", "CXCursor_TypedefDecl", "CXCursor_VarDecl"} }

(* ------------------------------ cfg.h ---------------------------------- *)
\* the calls of a translation unit: (caller, callee) pairs, NULL for a callee
\* with no definition
Edges == Funcs \X (Funcs \cup {NULL})

\* cfg(tu): every call graph of at most MaxCalls calls
CallGraphs ==
    { [c \in Funcs |-> {e[2] : e \in {x \in E : x[1] = c}}] :
        E \in {S \in SUBSET Edges : Cardinality(S) <= MaxCalls} }

\* the callees cfg_visit_callees enumerates for a caller
callees_of(g, caller) == IF caller \in DOMAIN g THEN g[caller] ELSE {}

\* one active call of cfg_visit_callees: its caller and the callees it has
\* not handed to the visitor yet
Frame(g, caller) == [caller |-> caller, todo |-> callees_of(g, caller)]

(* ------------------------------ merge_callees -------------------------- *)
\* the nested visitor never asking for the callee's own callees
callee_visitor_one_hop(callee, caller, acc, warn) ==
    IF callee = NULL
    THEN [result |-> "CXChildVisit_Continue", callees |-> acc, warnings |-> warn + 1]
    ELSE [result |-> "CXChildVisit_Continue", callees |-> set_insert(acc, callee),
          warnings |-> warn]

\* the nested visitor without the test for a NULL callee
callee_visitor_no_null_test(callee, caller, acc, warn) ==
    [result |-> "CXChildVisit_Recurse", callees |-> set_insert(acc, callee),
     warnings |-> warn]

\* the nested visitor of merge_callees: what it returns, and the accumulator
\* and the warning count after it
callee_visitor(callee, caller, acc, warn) ==
    IF callee = NULL
    THEN [result |-> "CXChildVisit_Continue", callees |-> acc, warnings |-> warn + 1]
    ELSE [result |-> "CXChildVisit_Recurse", callees |-> set_insert(acc, callee),
          warnings |-> warn]

\* callees = set(); set_iter(keeps, &i)
MergeCallees ==
    /\ pc = "merge_callees"
    /\ keeps0' = opts.keep
    /\ \E ok \in BOOLEAN :
         IF ok
         THEN /\ callees' = {}
              /\ held' = held \cup {"callees"}
              /\ iter' = opts.keep
              /\ pc' = "merge_loop"
              /\ UNCHANGED <<exit, err>>
         ELSE /\ Die("Failed to traverse CFG")
              /\ UNCHANGED <<callees, held, iter>>
    /\ UNCHANGED <<remaining, arg, optarg, opts, graph, stack, warnings, out,
                   opened, cursor, verdict, ndecls>>

\* caller = set_iter_next(&i), not NULL: cfg_visit_callees is entered
NextCaller ==
    /\ pc = "merge_loop"
    /\ \E caller \in iter :
         /\ iter' = iter \ {caller}
         /\ stack' = <<Frame(graph, caller)>>
    /\ pc' = "cfg_visit"
    /\ UNCHANGED <<remaining, arg, optarg, opts, graph, keeps0, callees, warnings,
                   err, out, opened, cursor, verdict, ndecls, held, exit>>

\* cfg_visit_callees hands the next callee of the innermost caller to the
\* visitor and, when the visitor answers Recurse, enters the callee
CfgVisitCallee ==
    /\ pc = "cfg_visit"
    /\ LET top == stack[Len(stack)] IN
       \E callee \in top.todo :
         LET r == callee_visitor(callee, top.caller, callees, warnings)
             rest == [stack EXCEPT ![Len(stack)].todo = @ \ {callee}]
         IN /\ callees' = r.callees
            /\ warnings' = r.warnings
            /\ IF r.result # "CXChildVisit_Recurse"
               THEN /\ stack' = rest
                    /\ UNCHANGED <<pc, exit>>
               ELSE IF Len(stack) < MaxDepth
               THEN /\ stack' = Append(rest, Frame(graph, callee))
                    /\ UNCHANGED <<pc, exit>>
               ELSE \* the recursion has used up the stack
                    /\ stack' = rest
                    /\ pc' = "done"
                    /\ exit' = "SIGSEGV"
    /\ UNCHANGED <<remaining, arg, optarg, opts, graph, keeps0, iter, err, out,
                   opened, cursor, verdict, ndecls, held>>

\* the innermost cfg_visit_callees has no callee left and returns 0
CfgVisitReturn ==
    /\ pc = "cfg_visit"
    /\ stack[Len(stack)].todo = {}
    /\ stack' = SubSeq(stack, 1, Len(stack) - 1)
    /\ pc' = IF Len(stack) = 1 THEN "merge_loop" ELSE "cfg_visit"
    /\ UNCHANGED <<remaining, arg, optarg, opts, graph, keeps0, iter, callees,
                   warnings, err, out, opened, cursor, verdict, ndecls, held, exit>>

\* the hard error with main going on after its message
CfgVisitFail_no_return ==
    /\ pc = "cfg_visit"
    /\ stack' = <<>>
    /\ callees' = {}
    /\ held' = held \ {"callees"}
    /\ err' = "Failed to traverse CFG"
    /\ pc' = "cfg_destroy"
    /\ UNCHANGED <<remaining, arg, optarg, opts, graph, keeps0, iter, warnings,
                   out, opened, cursor, verdict, ndecls, exit>>

\* cfg_visit_callees reports a hard error: merge_callees destroys the
\* accumulator and returns -1, main gives up
CfgVisitFail ==
    /\ pc = "cfg_visit"
    /\ stack' = <<>>
    /\ callees' = {}
    /\ held' = held \ {"callees"}
    /\ Die("Failed to traverse CFG")
    /\ UNCHANGED <<remaining, arg, optarg, opts, graph, keeps0, iter, warnings,
                   out, opened, cursor, verdict, ndecls>>

\* set_iter_next returned NULL: set_union(keeps, callees); return 0
MergeReturn ==
    /\ pc = "merge_loop"
    /\ iter = {}
    /\ opts' = [opts EXCEPT !.keep = set_union(@, callees)]
    /\ callees' = {}
    /\ pc' = "cfg_destroy"
    /\ UNCHANGED <<remaining, arg, optarg, graph, keeps0, iter, stack, warnings,
                   err, out, opened, cursor, verdict, ndecls, held, exit>>

(* ------------------ merge_callees as a function of its input ----------- *)
\* cfg_visit_callees for one caller with `depth` frames in use: the
\* accumulator when it returns, or SIGSEGV when the recursion uses up the stack
RECURSIVE cfg_visit_callees(_, _, _, _, _)
cfg_visit_callees(g, caller, todo, acc, depth) ==
    IF todo = {} THEN [status |-> "ok", callees |-> acc]
    ELSE
    LET callee == CHOOSE x \in todo : TRUE
        r == callee_visitor(callee, caller, acc, 0)
    IN IF r.result # "CXChildVisit_Recurse"
       THEN cfg_visit_callees(g, caller, todo \ {callee}, r.callees, depth)
       ELSE IF depth < MaxDepth
       THEN LET sub == cfg_visit_callees(g, callee, callees_of(g, callee),
                                         r.callees, depth + 1)
            IN IF sub.status # "ok" THEN sub
               ELSE cfg_visit_callees(g, caller, todo \ {callee}, sub.callees, depth)
       ELSE [status |-> "SIGSEGV", callees |-> r.callees]

\* the while loop of merge_callees over the callers left in the iterator
RECURSIVE visit_keeps(_, _, _)
visit_keeps(g, left, acc) ==
    IF left = {} THEN [status |-> "ok", callees |-> acc]
    ELSE LET caller == CHOOSE x \in left : TRUE
             r == cfg_visit_callees(g, caller, callees_of(g, caller), acc, 1)
         IN IF r.status # "ok" THEN r
            ELSE visit_keeps(g, left \ {caller}, r.callees)

\* merge_callees(keeps, graph) when no allocation and no graph look-up fails:
\* the keep-set it leaves, or the signal that ends the process
merge_callees(keeps, g) ==
    LET r == visit_keeps(g, keeps, {})
    IN IF r.status = "ok"
       THEN [status |-> "ok", keep |-> set_union(keeps, r.callees)]
       ELSE [status |-> r.status, keep |-> keeps]

(* ------------------------------ main ----------------------------------- *)
\* opts->input == NULL
NoInput ==
    /\ pc = "main"
    /\ opts.input = NULL
    /\ Die("no input file provided")
    /\ UNCHANGED <<remaining, arg, optarg, opts, graph, keeps0, iter, callees,
                   stack, warnings, out, opened, cursor, verdict, ndecls, held>>

\* fopen(opts->input, "r"), fclose(check)
CheckInput ==
    /\ pc = "main"
    /\ opts.input # NULL
    /\ \E readable \in BOOLEAN :
         IF readable
         THEN pc' = "parse" /\ UNCHANGED <<exit, err>>
         ELSE Die("input file does not exist or is unreadable")
    /\ UNCHANGED <<remaining, arg, optarg, opts, graph, keeps0, iter, callees,
                   stack, warnings, out, opened, cursor, verdict, ndecls, held>>

\* clang_createIndex, clang_parseTranslationUnit
ParseTU ==
    /\ pc = "parse"
    /\ \E parsed \in BOOLEAN :
         IF parsed
         THEN /\ held' = held \cup {"index", "tu"}
              /\ pc' = "open_output"
              /\ UNCHANGED <<exit, err>>
         ELSE /\ held' = held \cup {"index"}
              /\ Die("failed to parse source file")
    /\ UNCHANGED <<remaining, arg, optarg, opts, graph, keeps0, iter, callees,
                   stack, warnings, out, opened, cursor, verdict, ndecls>>

\* fopen(opts->output, "w")
OpenOutput ==
    /\ pc = "open_output"
    /\ \E ok \in BOOLEAN :
         IF ok
         THEN /\ opened' = TRUE
              /\ out' = <<>>
              /\ held' = held \cup {"f"}
              /\ pc' = "cfg"
              /\ UNCHANGED <<exit, err>>
         ELSE /\ Die("failed to open output")
              /\ UNCHANGED <<opened, out, held>>
    /\ UNCHANGED <<remaining, arg, optarg, opts, graph, keeps0, iter, callees,
                   stack, warnings, cursor, verdict, ndecls>>

\* graph = cfg(tu)
BuildCfg ==
    /\ pc = "cfg"
    /\ \/ /\ \E g \in CallGraphs : graph' = g
          /\ held' = held \cup {"graph"}
          /\ pc' = "merge_callees"
          /\ UNCHANGED <<exit, err>>
       \/ /\ Die("failed to form CFG")
          /\ UNCHANGED <<graph, held>>
    /\ UNCHANGED <<remaining, arg, optarg, opts, keeps0, iter, callees, stack,
                   warnings, out, opened, cursor, verdict, ndecls>>

\* cfg_destroy(graph) after merge_callees returned 0
CfgDestroy ==
    /\ pc = "cfg_destroy"
    /\ graph' = NoGraph
    /\ held' = held \ {"graph"}
    /\ pc' = "visit_children"
    /\ UNCHANGED <<remaining, arg, optarg, opts, keeps0, iter, callees, stack,
                   warnings, err, out, opened, cursor, verdict, ndecls, exit>>

\* clang_visitChildren calls the visitor for the next top-level cursor
VisitDecl ==
    /\ pc = "visit_children"
    /\ ndecls < MaxDecls
    /\ ndecls' = ndecls + 1
    /\ \E c \in TopLevel :
         /\ cursor' = c
         /\ verdict' = visitor(c, opts.keep, opts.blacklist)
         /\ out' = IF verdict' = "emit" THEN out \o emit(c) ELSE out
    /\ UNCHANGED <<pc, remaining, arg, optarg, opts, graph, keeps0, iter, callees,
                   stack, warnings, err, opened, held, exit>>

\* no cursor is left: the translation unit and the index are disposed, return 0
Finish ==
    /\ pc = "visit_children"
    /\ held' = held \ {"tu", "index"}
    /\ pc' = "done"
    /\ exit' = "EXIT_SUCCESS"
    /\ UNCHANGED <<remaining, arg, optarg, opts, graph, keeps0, iter, callees,
                   stack, warnings, err, out, opened, cursor, verdict, ndecls>>

Init ==
    /\ pc = "parse_args"
    /\ remaining \in 0..MaxOpts
    /\ arg = NoArg
    /\ optarg = ""
    /\ opts = DefaultOpts
    /\ graph = NoGraph
    /\ keeps0 = {}
    /\ iter = {}
    /\ callees = {}
    /\ stack = <<>>
    /\ warnings = 0
    /\ err = ""
    /\ out = <<>>
    /\ opened = FALSE
    /\ cursor = NoCursor
    /\ verdict = "none"
    /\ ndecls = 0
    /\ held = {}
    /\ exit = "none"

Next ==
    \/ ParseArgsAlloc
    \/ OptBlacklist
    \/ OptKeep
    \/ OptOutput
    \/ OptHelp
    \/ ParseArgsEnd
    \/ NoInput
    \/ CheckInput
    \/ ParseTU
    \/ OpenOutput
    \/ BuildCfg
    \/ MergeCallees
    \/ NextCaller
    \/ CfgVisitCallee
    \/ CfgVisitReturn
    \/ CfgVisitFail
    \/ MergeReturn
    \/ CfgDestroy
    \/ VisitDecl
    \/ Finish

Spec == Init /\ [][Next]_vars

\* the top-level cursors a whole run emits, for a keep-set, a blacklist and a
\* call graph: none when merge_callees does not return
Emitted(keeps, blacklist, g) ==
    LET r == merge_callees(keeps, g)
    IN IF r.status # "ok" THEN {}
       ELSE {c \in TopLevel : visitor(c, r.keep, blacklist) = "emit"}

(* ------------------------------ emit on its own ------------------------ *)
\* emit applied to one cursor of any kind and any extent of at most MaxTokens
InitEmit ==
    /\ pc = "emit"
    /\ cursor \in AllCursors
    /\ remaining = 0
    /\ arg = NoArg
    /\ optarg = ""
    /\ opts = DefaultOpts
    /\ graph = NoGraph
    /\ keeps0 = {}
    /\ iter = {}
    /\ callees = {}
    /\ stack = <<>>
    /\ warnings = 0
    /\ err = ""
    /\ out = <<>>
    /\ opened = TRUE
    /\ verdict = "emit"
    /\ ndecls = 0
    /\ held = {}
    /\ exit = "none"

EmitCursor ==
    /\ pc = "emit"
    /\ out' = out \o emit(cursor)
    /\ pc' = "emitted"
    /\ UNCHANGED <<remaining, arg, optarg, opts, graph, keeps0, iter, callees,
                   stack, warnings, err, opened, cursor, verdict, ndecls, held, exit>>

NextEmit == EmitCursor

SpecEmit == InitEmit /\ [][NextEmit]_vars

(* ------------------------------ properties ----------------------------- *)
\* the stepwise traversal and merge_callees as a function leave the same keep-set
StepsAgree ==
    pc = "cfg_destroy" =>
        merge_callees(keeps0, graph) = [status |-> "ok", keep |-> opts.keep]

\* S is closed under "calls": it holds every defined callee of its members
Closed(S, g) == \A s \in S : callees_of(g, s) \ {NULL} \subseteq S

\* C1: when merge_callees has returned success, the keep-set is the smallest
\* set that contains the initial keep-set and is closed under "calls"
C1_ClosureCorrect ==
    pc = "cfg_destroy" =>
        /\ keeps0 \subseteq opts.keep
        /\ Closed(opts.keep, graph)
        /\ \A S \in SUBSET Names :
              (keeps0 \subseteq S /\ Closed(S, graph)) => opts.keep \subseteq S

\* a closure that needed two hops: a kept caller's callee's callee was added
C1_Witness ==
    /\ pc = "cfg_destroy"
    /\ \E a \in keeps0 : \E b \in callees_of(graph, a) : \E c \in callees_of(graph, b) :
          /\ b # NULL /\ c # NULL
          /\ b \notin keeps0 /\ c \notin keeps0
          /\ c \notin callees_of(graph, a)
          /\ c \in opts.keep

\* C2: the closure computation terminates on every call graph, cycles
\* included: the recursion never uses up the stack
C2_TraversalTerminates == ~(pc = "done" /\ exit = "SIGSEGV")

\* C3: a top-level declaration is skipped when it is a function whose name is
\* not in the keep-set, else skipped when its name is in the blacklist, else
\* emitted; so a declaration that is no function is emitted unless blacklisted
C3_SelectorDecision ==
    [][ ndecls' = ndecls + 1 =>
          LET c == cursor'
              fn == c.kind = "CXCursor_FunctionDecl"
              kept == c.spelling \in opts.keep
              black == c.spelling \in opts.blacklist
          IN /\ (fn /\ ~kept) => (verdict' = "skip" /\ out' = out)
             /\ (~(fn /\ ~kept) /\ black) => (verdict' = "skip" /\ out' = out)
             /\ (~(fn /\ ~kept) /\ ~black) => (verdict' = "emit" /\ out' = out \o emit(c))
             /\ (~fn /\ ~black) => (verdict' = "emit" /\ Len(out') > Len(out))
      ]_vars

\* a declaration that is no function and is not named in a non-empty keep-set
\* has been written
C3_Witness ==
    /\ verdict = "emit"
    /\ cursor.kind \in Kinds \ {"CXCursor_FunctionDecl"}
    /\ opts.keep # {}
    /\ cursor.spelling \notin opts.keep
    /\ out # <<>>

\* C4: nothing is written for a declaration named in the blacklist, also when
\* the name is in the closed keep-set; the closure does not take the blacklist
\* out of the keep-set, so the callees of a blacklisted kept function are in
\* the closed keep-set and are emitted
C4_BlacklistPrecedence ==
    /\ [](pc = "cfg_destroy" =>
            /\ keeps0 \subseteq opts.keep
            /\ \A b \in opts.blacklist \cap opts.keep :
                  callees_of(graph, b) \ {NULL} \subseteq opts.keep)
    /\ [][ ndecls' = ndecls + 1 =>
             /\ cursor'.spelling \in opts.blacklist => out' = out
             /\ ( /\ cursor'.kind = "CXCursor_FunctionDecl"
                  /\ cursor'.spelling \in opts.keep \ opts.blacklist )
                => out' = out \o emit(cursor')
         ]_vars

\* the only kept function is blacklisted, and one of its callees is written
C4_Witness ==
    /\ Cardinality(keeps0) = 1
    /\ keeps0 = opts.blacklist
    /\ verdict = "emit"
    /\ cursor.kind = "CXCursor_FunctionDecl"
    /\ cursor.spelling \notin keeps0
    /\ out # <<>>

\* C5: what emit writes for a cursor with tokens t1..tn, n >= 1: a function
\* definition, all of them if tn is "}" and t1..t(n-1) otherwise; a struct,
\* union or enum, nothing if tn is neither ";" nor "}" and all otherwise; a
\* typedef ending in __attribute__, t1..t(n-1) and then "; "; every other
\* cursor, all of them; each token on a line of its own
C5_TokenRange ==
    (pc = "emitted" /\ Len(cursor.tokens) >= 1) =>
        LET t == cursor.tokens
            n == Len(t)
            All == [i \in 1..n |-> t[i] \o "\n"]
            Front == [i \in 1..(n - 1) |-> t[i] \o "\n"]
        IN out =
            CASE cursor.kind = "CXCursor_FunctionDecl" /\ cursor.isDefinition ->
                    IF t[n] = "}" THEN All ELSE Front
              [] cursor.kind \in {"CXCursor_StructDecl", "CXCursor_UnionDecl",
                                  "CXCursor_EnumDecl"} ->
                    IF t[n] \notin {";", "}"} THEN <<>> ELSE All
              [] cursor.kind = "CXCursor_TypedefDecl" /\ t[n] = "__attribute__" ->
                    Front \o <<"; ">>
              [] OTHER -> All

\* a function definition of three tokens ending in "}" has lost none
C5_Witness ==
    /\ pc = "emitted"
    /\ cursor.kind = "CXCursor_FunctionDecl"
    /\ cursor.isDefinition
    /\ Len(cursor.tokens) = 3
    /\ cursor.tokens[3] = "}"
    /\ Len(out) = 3

\* C6: a token is written only after parsing, the construction of the call
\* graph and the whole closure have succeeded; a run that fails has written
\* none, and a parse failure comes before the output file is opened
C6_FailureBeforeEmission ==
    /\ out # <<>> =>
          /\ pc \in {"visit_children", "done"}
          /\ exit \in {"none", "EXIT_SUCCESS"}
          /\ err = ""
          /\ "graph" \notin held
    /\ exit \notin {"none", "EXIT_SUCCESS"} => out = <<>>
    /\ err \in {"failed to form CFG", "Failed to traverse CFG"} =>
          (pc = "done" /\ exit = "EXIT_FAILURE" /\ out = <<>>)
    /\ err = "failed to parse source file" => ~opened

\* a traversal that failed after the output file was opened: nothing written
C6_Witness ==
    /\ pc = "done"
    /\ err = "Failed to traverse CFG"
    /\ exit = "EXIT_FAILURE"
    /\ keeps0 # {}
    /\ opened
    /\ out = <<>>

\* C7: a callee with no definition makes the visitor write one warning and
\* nothing else: the traversal goes on where it was, nothing fatal is reported
\* and the process does not end; the undefined callee is never in the
\* accumulator or in the keep-set
C7_UndefinedCalleeNonFatal ==
    /\ [](NULL \notin callees /\ NULL \notin opts.keep)
    /\ [][ ( /\ pc = "cfg_visit"
             /\ Len(stack') = Len(stack)
             /\ NULL \in stack[Len(stack)].todo
             /\ NULL \notin stack'[Len(stack)].todo )
           => /\ warnings' = warnings + 1
              /\ callees' = callees
              /\ pc' = "cfg_visit"
              /\ exit' = "none"
              /\ err' = ""
         ]_vars

\* a run that warned, kept exactly what was asked for, wrote it and returned 0
C7_Witness ==
    /\ pc = "done"
    /\ exit = "EXIT_SUCCESS"
    /\ warnings > 0
    /\ keeps0 # {}
    /\ opts.keep = keeps0
    /\ cursor.spelling \in keeps0
    /\ out # <<>>

\* C8: with the input, the call graph and the blacklist fixed, a name added to
\* the initial keep-set removes no emitted function; with the keep-set fixed,
\* a name added to the blacklist adds no emitted declaration
C8_SelectorMonotone ==
    pc = "cfg_destroy" =>
        \A n \in Names :
            /\ {c \in Emitted(keeps0, opts.blacklist, graph) :
                    c.kind = "CXCursor_FunctionDecl"}
                 \subseteq Emitted(keeps0 \cup {n}, opts.blacklist, graph)
            /\ Emitted(keeps0, opts.blacklist \cup {n}, graph)
                 \subseteq Emitted(keeps0, opts.blacklist, graph)

\* C9: when the process has ended, everything it acquired has been released
C9_AllReleased == pc = "done" => held = {}

\* C10: --blacklist <symbol> and -b <symbol> are both accepted: the option
\* scanned last being one of them, the name is in the blacklist and parsing
\* goes on
C10_BlacklistForms ==
    (arg = [dashes |-> 2, name |-> "blacklist"] \/ arg = [dashes |-> 1, name |-> "b"])
        => /\ pc = "getopt"
           /\ exit = "none"
           /\ optarg \in opts.blacklist

====
